---- MODULE Spec2Model ----
(* Two example documents of the plotly documentation:                      *)
(*   "nb": _posts/scikit/ledoit-wolf-vs-oas/Ledoit-Wolf-vs-OAS-estimation  *)
(*         .ipynb, a Jupyter notebook with nine code cells;                *)
(*   "eb": _posts/python/statistical/error-bar/2015-06-30-error-bars.html, *)
(*         a rendered notebook with seven code cells and a front matter.   *)
(* A document is executed cell by cell by its own kernel; a cell is a      *)
(* sequence of statements run against the kernel's namespace; py.iplot     *)
(* submits a chart description to the hosted rendering service.            *)
(* Numeric literals are kept as the strings the source writes ("0.1").     *)
EXTENDS Integers, Sequences, FiniteSets, TLC

(***************************************************************************)
(* Bounds of the exploration.                                              *)
(***************************************************************************)
\* number of cell executions and kernel restarts explored in free order
MaxRuns == 3

Docs == {"nb", "eb"}

(***************************************************************************)
(* Values held by a kernel namespace.  Every value is a record with a      *)
(* field kind.                                                             *)
(***************************************************************************)
Unbound == [kind |-> "unbound"]
ModuleV(m) == [kind |-> "module", name |-> m]
ClassV(c) == [kind |-> "class", name |-> c]
FuncV(f) == [kind |-> "function", name |-> f]
IntV(n) == [kind |-> "int", v |-> n]
FloatV(s) == [kind |-> "float", lit |-> s]
ObjV(c) == [kind |-> "object", cls |-> c]
\* a python list of literals
ListV(xs) == [kind |-> "list", items |-> xs]
\* a python list of traces
DataV(ts) == [kind |-> "data", traces |-> ts]
\* a one-dimensional numpy array: its length, the operation that made it,
\* the array it was computed from, and whether every entry it was computed
\* from had been written by the simulation
NdV(n, o, src, f) == [kind |-> "ndarray", len |-> n, op |-> o, of |-> src, full |-> f]
\* a two-dimensional numpy array; filled counts the entries written so far
MatV(nm, r, c, f) == [kind |-> "matrix", src |-> nm, rows |-> r, cols |-> c, filled |-> f]
\* go.Scatter(**args), go.Bar(**args): args holds the keyword arguments given
TraceV(t, a) == [kind |-> "trace", type |-> t, args |-> a]
LayoutV(a) == [kind |-> "layout", args |-> a]
FigureV(d, l) == [kind |-> "figure", data |-> d, layout |-> l]

SeqLen(v) == IF v.kind = "list" THEN Len(v.items) ELSE v.len

Has(d, k) == k \in DOMAIN d

\* numpy.arange(start, stop, step), step > 0
Arange(start, stop, step) ==
  NdV(IF stop > start THEN (stop - start + step - 1) \div step ELSE 0,
      "arange", "range", TRUE)

\* numpy.zeros((r, c)) bound to the name nm
Zeros(nm, r, c) == MatV(nm, r, c, 0)

MatFull(m) == m.filled = m.rows * m.cols

\* m.mean(0): one mean per column
Mean0(m) == NdV(m.cols, "mean", m.src, MatFull(m))

\* m.mean(1): one mean per row
Mean1(m) == NdV(m.rows, "mean", m.src, MatFull(m))

\* m.std(1): one standard deviation per row
Std1(m) == NdV(m.rows, "std", m.src, MatFull(m))

(***************************************************************************)
(* Statements.  reads: the names the statement looks up in the namespace   *)
(* (python builtins are always bound and are left out); target: the name   *)
(* it binds, "" for none; arg, filename: the arguments of py.iplot.        *)
(***************************************************************************)
St(i, o, t, r) ==
  [id |-> i, op |-> o, target |-> t, reads |-> r, arg |-> "", filename |-> ""]

Import(i, t) == St(i, "import", t, {})
Assign(i, t, r) == St(i, "assign", t, r)
Expr(i, r) == St(i, "expr", "", r)
IPlot(i, a, f) ==
  [id |-> i, op |-> "iplot", target |-> "", reads |-> {"py", a}, arg |-> a,
   filename |-> f]

\* the statements of the notebook's code cells, in document order
NbCells == <<
  \* In [1]  Version
  << Import("nb.sklearn", "sklearn"),
     Expr("nb.version", {"sklearn"}) >>,
  \* In [2]  Imports
  << Expr("nb.print_doc", {}),
     Import("nb.py", "py"),
     Import("nb.go", "go"),
     Import("nb.np", "np"),
     Import("nb.toeplitz", "toeplitz"),
     Import("nb.cholesky", "cholesky"),
     Import("nb.LedoitWolf", "LedoitWolf"),
     Import("nb.OAS", "OAS") >>,
  \* In [3]  Calculations
  << Expr("nb.seed", {"np"}),
     Assign("nb.n_features", "n_features", {}),
     Assign("nb.r", "r", {}),
     Assign("nb.real_cov", "real_cov", {"toeplitz", "r", "np", "n_features"}),
     Assign("nb.coloring_matrix", "coloring_matrix", {"cholesky", "real_cov"}),
     Assign("nb.n_samples_range", "n_samples_range", {"np"}),
     Assign("nb.repeat", "repeat", {}),
     Assign("nb.lw_mse", "lw_mse", {"np", "n_samples_range", "repeat"}),
     Assign("nb.oa_mse", "oa_mse", {"np", "n_samples_range", "repeat"}),
     Assign("nb.lw_shrinkage", "lw_shrinkage", {"np", "n_samples_range", "repeat"}),
     Assign("nb.oa_shrinkage", "oa_shrinkage", {"np", "n_samples_range", "repeat"}),
     St("nb.loop", "loop", "", {"n_samples_range"}) >>,
  \* In [4]  Plot MSE
  << Assign("nb.mse.Ledoit_Wolf", "Ledoit_Wolf", {"go", "n_samples_range", "lw_mse"}),
     Assign("nb.mse.OAS", "OAS", {"go", "n_samples_range", "oa_mse"}),
     Assign("nb.mse.data", "data", {"Ledoit_Wolf", "OAS"}),
     Assign("nb.mse.layout", "layout", {"go"}),
     Assign("nb.mse.fig", "fig", {"go", "data", "layout"}) >>,
  \* In [5]
  << IPlot("nb.iplot1", "fig", "") >>,
  \* In [6]  Plot shrinkage coefficient
  << Assign("nb.shr.Ledoit_Wolf", "Ledoit_Wolf",
            {"go", "n_samples_range", "lw_shrinkage", "lw_mse"}),
     Assign("nb.shr.OAS", "OAS", {"go", "n_samples_range", "oa_shrinkage"}),
     Assign("nb.shr.data", "data", {"Ledoit_Wolf", "OAS"}),
     Assign("nb.shr.layout", "layout", {"go"}),
     Assign("nb.shr.fig", "fig", {"go", "data", "layout"}) >>,
  \* In [7]
  << IPlot("nb.iplot2", "fig", "") >>,
  \* In [2]  publishing cell
  << Import("nb.display", "display"),
     Import("nb.HTML", "HTML"),
     Expr("nb.display1", {"display", "HTML"}),
     Expr("nb.display2", {"display", "HTML"}),
     St("nb.pip", "pip", "", {}),
     St("nb.import_publisher", "importpub", "publisher", {}),
     St("nb.publish", "publish", "", {"publisher"}) >>,
  \* In [ ]  empty cell
  << >>
>>

\* the error-bars page with the imports of its second cell left to the first
EbCellsSharedImports == <<
  \* In [1]  Basic Symmetric Error Bars
  << Import("eb.py", "py"), Import("eb.go", "go"),
     Assign("eb.1.data", "data", {"go"}),
     IPlot("eb.1.iplot", "data", "basic-error-bar") >>,
  \* In [2]  Asymmetric Error Bars
  << Assign("eb.2.data", "data", {"go"}),
     IPlot("eb.2.iplot", "data", "error-bar-asymmetric-array") >>,
  \* In [3]  Error Bars as a Percentage of the y Value
  << Import("eb.py", "py"), Import("eb.go", "go"),
     Assign("eb.3.data", "data", {"go"}),
     IPlot("eb.3.iplot", "data", "percent-error-bar") >>,
  \* In [4]  Asymmetric Error Bars with a Constant Offset
  << Import("eb.py", "py"), Import("eb.go", "go"),
     Assign("eb.4.data", "data", {"go"}),
     IPlot("eb.4.iplot", "data", "error-bar-asymmetric-constant") >>,
  \* In [5]  Horizontal Error Bars
  << Import("eb.py", "py"), Import("eb.go", "go"),
     Assign("eb.5.data", "data", {"go"}),
     IPlot("eb.5.iplot", "data", "error-bar-horizontal") >>,
  \* In [6]  Bar Chart with Error Bars
  << Import("eb.py", "py"), Import("eb.go", "go"),
     Assign("eb.6.trace1", "trace1", {"go"}),
     Assign("eb.6.trace2", "trace2", {"go"}),
     Assign("eb.6.data", "data", {"trace1", "trace2"}),
     Assign("eb.6.layout", "layout", {"go"}),
     Assign("eb.6.fig", "fig", {"go", "data", "layout"}),
     IPlot("eb.6.iplot", "fig", "error-bar-bar") >>,
  \* In [1]  Colored and Styled Error Bars
  << Import("eb.py", "py"), Import("eb.go", "go"), Import("eb.np", "np"),
     Assign("eb.7.x_theo", "x_theo", {"np"}),
     Assign("eb.7.sincx", "sincx", {"np", "x_theo"}),
     Assign("eb.7.x", "x", {}),
     Assign("eb.7.y", "y", {}),
     Assign("eb.7.trace1", "trace1", {"go", "x_theo", "sincx"}),
     Assign("eb.7.trace2", "trace2", {"go", "x", "y"}),
     Assign("eb.7.data", "data", {"trace1", "trace2"}),
     IPlot("eb.7.iplot", "data", "error-bar-style") >>
>>

\* the error-bars page with its last cell submitting the figure of the cell
\* before it
EbCellsStaleFigure == <<
  \* In [1]  Basic Symmetric Error Bars
  << Import("eb.py", "py"), Import("eb.go", "go"),
     Assign("eb.1.data", "data", {"go"}),
     IPlot("eb.1.iplot", "data", "basic-error-bar") >>,
  \* In [2]  Asymmetric Error Bars
  << Import("eb.py", "py"), Import("eb.go", "go"),
     Assign("eb.2.data", "data", {"go"}),
     IPlot("eb.2.iplot", "data", "error-bar-asymmetric-array") >>,
  \* In [3]  Error Bars as a Percentage of the y Value
  << Import("eb.py", "py"), Import("eb.go", "go"),
     Assign("eb.3.data", "data", {"go"}),
     IPlot("eb.3.iplot", "data", "percent-error-bar") >>,
  \* In [4]  Asymmetric Error Bars with a Constant Offset
  << Import("eb.py", "py"), Import("eb.go", "go"),
     Assign("eb.4.data", "data", {"go"}),
     IPlot("eb.4.iplot", "data", "error-bar-asymmetric-constant") >>,
  \* In [5]  Horizontal Error Bars
  << Import("eb.py", "py"), Import("eb.go", "go"),
     Assign("eb.5.data", "data", {"go"}),
     IPlot("eb.5.iplot", "data", "error-bar-horizontal") >>,
  \* In [6]  Bar Chart with Error Bars
  << Import("eb.py", "py"), Import("eb.go", "go"),
     Assign("eb.6.trace1", "trace1", {"go"}),
     Assign("eb.6.trace2", "trace2", {"go"}),
     Assign("eb.6.data", "data", {"trace1", "trace2"}),
     Assign("eb.6.layout", "layout", {"go"}),
     Assign("eb.6.fig", "fig", {"go", "data", "layout"}),
     IPlot("eb.6.iplot", "fig", "error-bar-bar") >>,
  \* In [1]  Colored and Styled Error Bars
  << Import("eb.py", "py"), Import("eb.go", "go"), Import("eb.np", "np"),
     Assign("eb.7.x_theo", "x_theo", {"np"}),
     Assign("eb.7.sincx", "sincx", {"np", "x_theo"}),
     Assign("eb.7.x", "x", {}),
     Assign("eb.7.y", "y", {}),
     Assign("eb.7.trace1", "trace1", {"go", "x_theo", "sincx"}),
     Assign("eb.7.trace2", "trace2", {"go", "x", "y"}),
     Assign("eb.7.data", "data", {"trace1", "trace2"}),
     IPlot("eb.7.iplot", "fig", "error-bar-style") >>
>>

\* the statements of the error-bars page's code cells, in document order
EbCells == <<
  \* In [1]  Basic Symmetric Error Bars
  << Import("eb.py", "py"), Import("eb.go", "go"),
     Assign("eb.1.data", "data", {"go"}),
     IPlot("eb.1.iplot", "data", "basic-error-bar") >>,
  \* In [2]  Asymmetric Error Bars
  << Import("eb.py", "py"), Import("eb.go", "go"),
     Assign("eb.2.data", "data", {"go"}),
     IPlot("eb.2.iplot", "data", "error-bar-asymmetric-array") >>,
  \* In [3]  Error Bars as a Percentage of the y Value
  << Import("eb.py", "py"), Import("eb.go", "go"),
     Assign("eb.3.data", "data", {"go"}),
     IPlot("eb.3.iplot", "data", "percent-error-bar") >>,
  \* In [4]  Asymmetric Error Bars with a Constant Offset
  << Import("eb.py", "py"), Import("eb.go", "go"),
     Assign("eb.4.data", "data", {"go"}),
     IPlot("eb.4.iplot", "data", "error-bar-asymmetric-constant") >>,
  \* In [5]  Horizontal Error Bars
  << Import("eb.py", "py"), Import("eb.go", "go"),
     Assign("eb.5.data", "data", {"go"}),
     IPlot("eb.5.iplot", "data", "error-bar-horizontal") >>,
  \* In [6]  Bar Chart with Error Bars
  << Import("eb.py", "py"), Import("eb.go", "go"),
     Assign("eb.6.trace1", "trace1", {"go"}),
     Assign("eb.6.trace2", "trace2", {"go"}),
     Assign("eb.6.data", "data", {"trace1", "trace2"}),
     Assign("eb.6.layout", "layout", {"go"}),
     Assign("eb.6.fig", "fig", {"go", "data", "layout"}),
     IPlot("eb.6.iplot", "fig", "error-bar-bar") >>,
  \* In [1]  Colored and Styled Error Bars
  << Import("eb.py", "py"), Import("eb.go", "go"), Import("eb.np", "np"),
     Assign("eb.7.x_theo", "x_theo", {"np"}),
     Assign("eb.7.sincx", "sincx", {"np", "x_theo"}),
     Assign("eb.7.x", "x", {}),
     Assign("eb.7.y", "y", {}),
     Assign("eb.7.trace1", "trace1", {"go", "x_theo", "sincx"}),
     Assign("eb.7.trace2", "trace2", {"go", "x", "y"}),
     Assign("eb.7.data", "data", {"trace1", "trace2"}),
     IPlot("eb.7.iplot", "data", "error-bar-style") >>
>>

Cells(d) == IF d = "nb" THEN NbCells ELSE EbCells

NumCells(d) == Len(Cells(d))

\* the names the Calculations loop binds
LoopBinds == {"i", "n_samples", "j", "X", "lw", "oa"}

Names ==
  LoopBinds \cup
  ( { Cells(d)[c][k].target :
        <<d, c, k>> \in { t \in Docs \X (1..9) \X (1..12) :
                            /\ t[2] <= NumCells(t[1])
                            /\ t[3] <= Len(Cells(t[1])[t[2]]) } }
    \ {""} )


(***************************************************************************)
(* The value a statement binds to its target, given the namespace.         *)
(***************************************************************************)
\* error_y=dict(visible=True, arrayminus=m.std(1)) of the notebook's traces
NbErrorY(m) == [visible |-> TRUE, arrayminus |-> Std1(m)]

NbTrace(x, y, e, nm, colour) ==
  TraceV("Scatter",
         [x |-> x, y |-> y, error_y |-> e, name |-> nm, mode |-> "lines",
          line |-> [color |-> colour, width |-> "2"]])

NbLayout(ytitle) ==
  LayoutV([title |-> "Comparison of covariance estimators",
           yaxis |-> [title |-> ytitle],
           xaxis |-> [title |-> "n_samples"]])

NbValue(id, ns) ==
  CASE id = "nb.sklearn" -> ModuleV("sklearn")
    [] id = "nb.py" -> ModuleV("plotly.plotly")
    [] id = "nb.go" -> ModuleV("plotly.graph_objs")
    [] id = "nb.np" -> ModuleV("numpy")
    [] id = "nb.toeplitz" -> FuncV("scipy.linalg.toeplitz")
    [] id = "nb.cholesky" -> FuncV("scipy.linalg.cholesky")
    [] id = "nb.LedoitWolf" -> ClassV("sklearn.covariance.LedoitWolf")
    [] id = "nb.OAS" -> ClassV("sklearn.covariance.OAS")
    [] id = "nb.n_features" -> IntV(100)
    [] id = "nb.r" -> FloatV("0.1")
    [] id = "nb.real_cov" ->
         MatV("real_cov", ns["n_features"].v, ns["n_features"].v,
              ns["n_features"].v * ns["n_features"].v)
    [] id = "nb.coloring_matrix" ->
         MatV("coloring_matrix", ns["real_cov"].rows, ns["real_cov"].cols,
              ns["real_cov"].filled)
    [] id = "nb.n_samples_range" -> Arange(6, 31, 1)
    [] id = "nb.repeat" -> IntV(100)
    [] id = "nb.lw_mse" -> Zeros("lw_mse", ns["n_samples_range"].len, ns["repeat"].v)
    [] id = "nb.oa_mse" -> Zeros("oa_mse", ns["n_samples_range"].len, ns["repeat"].v)
    [] id = "nb.lw_shrinkage" ->
         Zeros("lw_shrinkage", ns["n_samples_range"].len, ns["repeat"].v)
    [] id = "nb.oa_shrinkage" ->
         Zeros("oa_shrinkage", ns["n_samples_range"].len, ns["repeat"].v)
    [] id = "nb.mse.Ledoit_Wolf" ->
         NbTrace(ns["n_samples_range"], Mean1(ns["lw_mse"]),
                 NbErrorY(ns["lw_mse"]), "Ledoit-Wolf", "navy")
    [] id = "nb.mse.OAS" ->
         NbTrace(ns["n_samples_range"], Mean1(ns["oa_mse"]),
                 NbErrorY(ns["oa_mse"]), "OAS", "#FF8C00")
    [] id = "nb.mse.data" -> DataV(<<ns["Ledoit_Wolf"], ns["OAS"]>>)
    [] id = "nb.mse.layout" -> NbLayout("Squared error")
    [] id = "nb.mse.fig" -> FigureV(ns["data"], ns["layout"])
    [] id = "nb.shr.Ledoit_Wolf" ->
         NbTrace(ns["n_samples_range"], Mean1(ns["lw_shrinkage"]),
                 NbErrorY(ns["lw_mse"]), "Ledoit-Wolf", "navy")
    [] id = "nb.shr.OAS" ->
         NbTrace(ns["n_samples_range"], Mean1(ns["oa_shrinkage"]),
                 NbErrorY(ns["oa_shrinkage"]), "OAS", "#FF8C00")
    [] id = "nb.shr.data" -> DataV(<<ns["Ledoit_Wolf"], ns["OAS"]>>)
    [] id = "nb.shr.layout" -> NbLayout("Shrinkage")
    [] id = "nb.shr.fig" -> FigureV(ns["data"], ns["layout"])
    [] id = "nb.display" -> FuncV("IPython.display.display")
    [] id = "nb.HTML" -> ClassV("IPython.display.HTML")
    [] id = "nb.import_publisher" -> ModuleV("publisher")

\* the error_y of the example under 'Asymmetric Error Bars with a Constant
\* Offset'
EbConstantOffsetErrorY ==
  [type |-> "percent", symmetric |-> FALSE, value |-> "15", valueminus |-> "25"]

\* an error_y whose array misses the last point
EbBasicErrorYShort ==
  [type |-> "data", array |-> ListV(<<"1", "2">>), visible |-> TRUE]

\* the error_y of the example under 'Basic Symmetric Error Bars'
EbBasicErrorY ==
  [type |-> "data", array |-> ListV(<<"1", "2", "3">>), visible |-> TRUE]

\* the same trace with the error bars given as error_y
EbHorizontalArgsVertical ==
  [x |-> ListV(<<"1", "2", "3", "4">>),
   y |-> ListV(<<"2", "1", "3", "4">>),
   error_y |-> [type |-> "percent", value |-> "10"]]

\* the keyword arguments of the trace under 'Horizontal Error Bars'
EbHorizontalArgs ==
  [x |-> ListV(<<"1", "2", "3", "4">>),
   y |-> ListV(<<"2", "1", "3", "4">>),
   error_x |-> [type |-> "percent", value |-> "10"]]

EbStyle(v) ==
  [type |-> "constant", value |-> v, color |-> "#85144B", thickness |-> "1.5",
   width |-> "3"]

EbValue(id, ns) ==
  CASE id = "eb.py" -> ModuleV("plotly.plotly")
    [] id = "eb.go" -> ModuleV("plotly.graph_objs")
    [] id = "eb.np" -> ModuleV("numpy")
    [] id = "eb.1.data" ->
         DataV(<< TraceV("Scatter",
                    [x |-> ListV(<<"0", "1", "2">>),
                     y |-> ListV(<<"6", "10", "2">>),
                     error_y |-> EbBasicErrorY]) >>)
    [] id = "eb.2.data" ->
         DataV(<< TraceV("Scatter",
                    [x |-> ListV(<<"1", "2", "3", "4">>),
                     y |-> ListV(<<"2", "1", "3", "4">>),
                     error_y |->
                       [type |-> "data", symmetric |-> FALSE,
                        array |-> ListV(<<"0.1", "0.2", "0.1", "0.1">>),
                        arrayminus |-> ListV(<<"0.2", "0.4", "1", "0.2">>)]]) >>)
    [] id = "eb.3.data" ->
         DataV(<< TraceV("Scatter",
                    [x |-> ListV(<<"0", "1", "2">>),
                     y |-> ListV(<<"6", "10", "2">>),
                     error_y |->
                       [type |-> "percent", value |-> "50", visible |-> TRUE]]) >>)
    [] id = "eb.4.data" ->
         DataV(<< TraceV("Scatter",
                    [x |-> ListV(<<"1", "2", "3", "4">>),
                     y |-> ListV(<<"2", "1", "3", "4">>),
                     error_y |-> EbConstantOffsetErrorY]) >>)
    [] id = "eb.5.data" -> DataV(<< TraceV("Scatter", EbHorizontalArgs) >>)
    [] id = "eb.6.trace1" ->
         TraceV("Bar",
                [x |-> ListV(<<"Trial 1", "Trial 2", "Trial 3">>),
                 y |-> ListV(<<"3", "6", "4">>),
                 name |-> "Control",
                 error_y |->
                   [type |-> "data", array |-> ListV(<<"1", "0.5", "1.5">>),
                    visible |-> TRUE]])
    [] id = "eb.6.trace2" ->
         TraceV("Bar",
                [x |-> ListV(<<"Trial 1", "Trial 2", "Trial 3">>),
                 y |-> ListV(<<"4", "7", "3">>),
                 name |-> "Experimental",
                 error_y |->
                   [type |-> "data", array |-> ListV(<<"0.5", "1", "2">>),
                    visible |-> TRUE]])
    [] id = "eb.6.data" -> DataV(<<ns["trace1"], ns["trace2"]>>)
    [] id = "eb.6.layout" -> LayoutV([barmode |-> "group"])
    [] id = "eb.6.fig" -> FigureV(ns["data"], ns["layout"])
    [] id = "eb.7.x_theo" -> NdV(100, "linspace", "range", TRUE)
    [] id = "eb.7.sincx" -> NdV(ns["x_theo"].len, "sinc", "x_theo", ns["x_theo"].full)
    [] id = "eb.7.x" ->
         ListV(<<"-3.8", "-3.03", "-1.91", "-1.46", "-0.89", "-0.24", "-0.0",
                 "0.41", "0.89", "1.01", "1.91", "2.28", "2.79", "3.56">>)
    [] id = "eb.7.y" ->
         ListV(<<"-0.02", "0.04", "-0.01", "-0.27", "0.36", "0.75", "1.03",
                 "0.65", "0.28", "0.02", "-0.11", "0.16", "0.04", "-0.15">>)
    [] id = "eb.7.trace1" ->
         TraceV("Scatter", [x |-> ns["x_theo"], y |-> ns["sincx"], name |-> "sinc(x)"])
    [] id = "eb.7.trace2" ->
         TraceV("Scatter",
                [x |-> ns["x"], y |-> ns["y"], mode |-> "markers",
                 name |-> "measured",
                 error_y |-> EbStyle("0.1"),
                 error_x |-> EbStyle("0.2"),
                 marker |-> [color |-> "#85144B", size |-> "8"]])
    [] id = "eb.7.data" -> DataV(<<ns["trace1"], ns["trace2"]>>)

Value(d, id, ns) == IF d = "nb" THEN NbValue(id, ns) ELSE EbValue(id, ns)

(***************************************************************************)
(* Execution of statements.  An execution state st carries the namespace   *)
(* ns, for every name the cell that bound it (binder), the error that      *)
(* stopped the cell (err), the statements reached, the outcomes of the pip *)
(* commands run, the charts handed to py.iplot (out), whether the          *)
(* publisher package is installed, the number of publisher.publish calls,  *)
(* and xref: the reads, rebindings and in-place writes of the running cell *)
(* that touch a name bound by a different cell.                            *)
(***************************************************************************)
NoCell == <<"", 0>>

EmptyNs == [n \in Names |-> Unbound]

EmptyBinder == [n \in Names |-> NoCell]

Bound(ns, n) == ns[n].kind # "unbound"

Callable(v) == v.kind \in {"class", "function"}

XEvent(st, n, how) ==
  [name |-> n, how |-> how, from |-> st.binder[n], kind |-> st.ns[n].kind]

\* the cross-cell reads of the names R by cell id
NoteReads(st, id, R) ==
  [st EXCEPT !.xref = @ \cup { XEvent(st, n, "read") :
                                n \in { m \in R : st.binder[m] \notin {NoCell, id} } }]

\* name = value
Bind(st, id, n, v) ==
  [st EXCEPT !.ns[n] = v,
             !.binder[n] = id,
             !.xref = IF st.binder[n] \notin {NoCell, id}
                      THEN @ \cup {XEvent(st, n, "rebind")} ELSE @]

\* name[i, j] = value: one more entry of the matrix is written in place
SetItem(st, id, n) ==
  [st EXCEPT !.ns[n].filled =
               IF @ < st.ns[n].rows * st.ns[n].cols THEN @ + 1 ELSE @,
             !.xref = IF st.binder[n] \notin {NoCell, id}
                      THEN @ \cup {XEvent(st, n, "mutate")} ELSE @]

\* the body of the Calculations loop, one pass for one (i, j)
LoopBody == <<
  Assign("nb.loop.i", "i", {}),
  Assign("nb.loop.n_samples", "n_samples", {}),
  Assign("nb.loop.j", "j", {"repeat"}),
  Assign("nb.loop.X", "X", {"np", "n_samples", "n_features", "coloring_matrix"}),
  [id |-> "nb.loop.lw", op |-> "construct", target |-> "lw",
   reads |-> {"LedoitWolf"}, arg |-> "LedoitWolf", filename |-> ""],
  Expr("nb.loop.lw.fit", {"lw", "X"}),
  St("nb.loop.lw_mse", "setitem", "lw_mse", {"lw_mse", "lw", "real_cov", "i", "j"}),
  St("nb.loop.lw_shrinkage", "setitem", "lw_shrinkage", {"lw_shrinkage", "lw", "i", "j"}),
  [id |-> "nb.loop.oa", op |-> "construct", target |-> "oa",
   reads |-> {"OAS"}, arg |-> "OAS", filename |-> ""],
  Expr("nb.loop.oa.fit", {"oa", "X"}),
  St("nb.loop.oa_mse", "setitem", "oa_mse", {"oa_mse", "oa", "real_cov", "i", "j"}),
  St("nb.loop.oa_shrinkage", "setitem", "oa_shrinkage", {"oa_shrinkage", "oa", "i", "j"})
>>

LoopValue(id) ==
  CASE id = "nb.loop.lw" -> ObjV("LedoitWolf")
    [] id = "nb.loop.oa" -> ObjV("OAS")
    [] id = "nb.loop.X" -> ObjV("ndarray")
    [] OTHER -> ObjV("int")

LoopTargets == { LoopBody[k].target : k \in { m \in DOMAIN LoopBody : LoopBody[m].op = "setitem" } }

\* the inner loop writing column 0 on every pass: no further entry is filled
FillRowFirstColumn(st) == st

\* the passes j = 1 .. cols-1 of a row whose pass j = 0 has completed: they
\* run the same statements against the same bindings
FillRow(st) ==
  [st EXCEPT !.ns = [n \in Names |->
                       IF n \in LoopTargets
                       THEN [st.ns[n] EXCEPT !.filled =
                               IF @ + st.ns["repeat"].v - 1 <= st.ns[n].rows * st.ns[n].cols
                               THEN @ + st.ns["repeat"].v - 1
                               ELSE st.ns[n].rows * st.ns[n].cols]
                       ELSE st.ns[n]]]

RECURSIVE ExecFrom(_, _, _, _, _, _)
RECURSIVE LoopRows(_, _, _, _, _)
RECURSIVE StmtEffect(_, _, _, _, _)

\* for i, n_samples in enumerate(n_samples_range): for j in range(repeat)
LoopRows(st, d, id, i, rows) ==
  IF i > rows \/ st.ns["repeat"].v = 0 THEN st
  ELSE CHOOSE r \in
         { IF s1.err # "none" THEN s1
           ELSE CHOOSE q \in { LoopRows(s2, d, id, i + 1, rows) : s2 \in {FillRow(s1)} } : TRUE
           : s1 \in {ExecFrom(st, d, id, LoopBody, 1, TRUE)} } : TRUE

\* one statement s of cell id of document d; ok is the outcome of pip
\* a shell command whose failure raises an error in the cell
PipEffectChecked(s0, ok) ==
  IF ok THEN [s0 EXCEPT !.pip = Append(@, ok), !.installed = TRUE]
  ELSE [s0 EXCEPT !.pip = Append(@, ok), !.err = "CalledProcessError"]

\* ! pip install ...: the shell command runs, its exit status is dropped
PipEffect(s0, ok) ==
  [s0 EXCEPT !.pip = Append(@, ok), !.installed = @ \/ ok]

StmtEffect(s0, d, id, s, ok) ==
  CASE s.op = "import" -> Bind(s0, id, s.target, Value(d, s.id, s0.ns))
    [] s.op = "assign" ->
         Bind(s0, id, s.target,
              IF s.id \in { LoopBody[k].id : k \in DOMAIN LoopBody }
              THEN LoopValue(s.id) ELSE Value(d, s.id, s0.ns))
    [] s.op = "expr" -> s0
    [] s.op = "construct" ->
         IF Callable(s0.ns[s.arg])
         THEN Bind(s0, id, s.target, LoopValue(s.id))
         ELSE [s0 EXCEPT !.err = "TypeError"]
    [] s.op = "setitem" -> SetItem(s0, id, s.target)
    [] s.op = "loop" -> LoopRows(s0, d, id, 1, s0.ns["n_samples_range"].len)
    [] s.op = "iplot" ->
         [s0 EXCEPT !.out = Append(@, [filename |-> s.filename,
                                       arg |-> s0.ns[s.arg]])]
    [] s.op = "pip" -> PipEffect(s0, ok)
    [] s.op = "importpub" ->
         IF s0.installed
         THEN Bind(s0, id, s.target, Value(d, s.id, s0.ns))
         ELSE [s0 EXCEPT !.err = "ImportError"]
    [] s.op = "publish" -> [s0 EXCEPT !.published = @ + 1]

ExecStmt(st, d, id, s, ok) ==
  LET missing == { n \in s.reads : ~Bound(st.ns, n) }
  IN CHOOSE r \in
       { IF missing # {} THEN [s0 EXCEPT !.err = "NameError"]
         ELSE StmtEffect(s0, d, id, s, ok)
         : s0 \in { [NoteReads(st, id, s.reads \ missing) EXCEPT !.reached = @ \cup {s.id}] } }
       : TRUE

\* the statements stmts[k..] in order; an error ends the cell
ExecFrom(st, d, id, stmts, k, ok) ==
  IF k > Len(stmts) \/ st.err # "none" THEN st
  ELSE CHOOSE r \in { ExecFrom(s1, d, id, stmts, k + 1, ok) :
                      s1 \in {ExecStmt(st, d, id, stmts[k], ok)} } : TRUE

\* cell c of document d run in a kernel with namespace ns0
ExecCell(d, c, ns0, binder0, inst, ok) ==
  ExecFrom([ns |-> ns0, binder |-> binder0, err |-> "none", reached |-> {},
            pip |-> <<>>, xref |-> {}, out |-> <<>>, installed |-> inst,
            published |-> 0],
           d, <<d, c>>, Cells(d)[c], 1, ok)

(***************************************************************************)
(* The hosted rendering service.  py.iplot(arg, filename=f) overwrites the *)
(* file f; py.iplot(arg) creates a new file named 'plot from API (n)'.     *)
(***************************************************************************)
DefaultFilename == "plot from API"

Submit(svc, d, c, o) ==
  Append(svc,
         [doc |-> d, cell |-> c,
          name |-> IF o.filename = "" THEN DefaultFilename ELSE o.filename,
          n |-> IF o.filename = ""
                THEN 1 + Cardinality({ k \in DOMAIN svc : svc[k].name = DefaultFilename })
                ELSE 0,
          arg |-> o.arg])

RECURSIVE SubmitAll(_, _, _, _, _)
SubmitAll(svc, d, c, out, k) ==
  IF k > Len(out) THEN svc
  ELSE SubmitAll(Submit(svc, d, c, out[k]), d, c, out, k + 1)

(***************************************************************************)
(* The front matter of the error-bars page, one entry per line, and the    *)
(* execution counts recorded in the two documents (0: never executed).     *)
(***************************************************************************)
FrontMatter == <<
  [key |-> "permalink", value |-> "python/error-bars/"],
  [key |-> "description", value |-> "How to add error-bars to charts in Python with Plotly."],
  [key |-> "name", value |-> "Error Bars | plotly"],
  [key |-> "has_thumbnail", value |-> "true"],
  [key |-> "thumbnail", value |-> "thumbnail/error-bar.jpg"],
  [key |-> "layout", value |-> "user-guide"],
  [key |-> "name", value |-> "Error Bars"],
  [key |-> "language", value |-> "python"],
  [key |-> "title", value |-> "Error Bars | plotly"],
  [key |-> "display_as", value |-> "statistical"],
  [key |-> "has_thumbnail", value |-> "true"],
  [key |-> "page_type", value |-> "example_index"],
  [key |-> "order", value |-> "1"],
  [key |-> "ipynb", value |-> "~notebook_demo/18"]
>>

NbExecutionCount == <<1, 2, 3, 4, 5, 6, 7, 2, 0>>

EbExecutionCount == <<1, 2, 3, 4, 5, 6, 1>>

RecordedCount(d) == IF d = "nb" THEN NbExecutionCount ELSE EbExecutionCount

(***************************************************************************)
(* State.                                                                  *)
(***************************************************************************)
VARIABLES
  ns,         \* ns[k][n]: the value of name n in kernel k
  binder,     \* binder[k][n]: the cell <<d, c>> that bound n, or NoCell
  counter,    \* counter[k]: the execution counter of kernel k
  stamp,      \* stamp[d][c]: the execution count shown at cell c (In [n])
  run,        \* run[d]: what the last executed cell of d did
  hist,       \* hist[d]: the cells of d executed so far, 0 for a restart
  service,    \* the charts submitted to the rendering service, in order
  installed,  \* the publisher package is installed in the environment
  fmpos,      \* the front matter lines the site generator has read
  meta,       \* the metadata it has built: key -> value
  bindings    \* key -> the values the front matter has given it so far

vars == <<ns, binder, counter, stamp, run, hist, service, installed, fmpos,
          meta, bindings>>

\* both documents run by the notebook's kernel
KernelOfShared(d) == "nb"

\* each document is run by a kernel of its own
KernelOf(d) == d

NoRun ==
  [cell |-> 0, err |-> "none", reached |-> {}, pip |-> <<>>, xref |-> {},
   published |-> 0, nout |-> 0]

Init ==
  /\ ns = [d \in Docs |-> EmptyNs]
  /\ binder = [d \in Docs |-> EmptyBinder]
  /\ counter = [d \in Docs |-> 0]
  /\ stamp = [d \in Docs |-> RecordedCount(d)]
  /\ run = [d \in Docs |-> NoRun]
  /\ hist = [d \in Docs |-> <<>>]
  /\ service = <<>>
  /\ installed \in BOOLEAN
  /\ fmpos = 0
  /\ meta = <<>>
  /\ bindings = <<>>

HasPip(d, c) == \E k \in DOMAIN Cells(d)[c] : Cells(d)[c][k].op = "pip"

\* an execution counter that is not advanced
NextCountStuck(n) == n

\* the execution counter after a cell has been run
NextCount(n) == n + 1

\* the kernel of document d executes cell c to completion; ok: pip succeeds
Execute(d, c, ok) ==
  \E r \in {ExecCell(d, c, ns[KernelOf(d)], binder[KernelOf(d)], installed, ok)} :
    \E cnt \in {IF Cells(d)[c] = <<>> THEN counter[KernelOf(d)]
                ELSE NextCount(counter[KernelOf(d)])} :
      /\ ns' = [ns EXCEPT ![KernelOf(d)] = r.ns]
      /\ binder' = [binder EXCEPT ![KernelOf(d)] = r.binder]
      /\ counter' = [counter EXCEPT ![KernelOf(d)] = cnt]
      /\ stamp' = [stamp EXCEPT ![d][c] = IF Cells(d)[c] = <<>> THEN @ ELSE cnt]
      /\ run' = [run EXCEPT ![d] =
                   [cell |-> c, err |-> r.err, reached |-> r.reached,
                    pip |-> r.pip, xref |-> r.xref, published |-> r.published,
                    nout |-> Len(r.out)]]
      /\ hist' = [hist EXCEPT ![d] = Append(@, c)]
      /\ service' = SubmitAll(service, d, c, r.out, 1)
      /\ installed' = r.installed
      /\ UNCHANGED <<fmpos, meta, bindings>>

Budget == Len(hist["nb"]) + Len(hist["eb"]) < MaxRuns

\* the user runs any cell of a document
RunCell(d, c) ==
  /\ Budget
  /\ \E ok \in (IF HasPip(d, c) THEN BOOLEAN ELSE {TRUE}) : Execute(d, c, ok)

\* the user restarts the kernel of a document
Restart(d) ==
  /\ Budget
  /\ ns' = [ns EXCEPT ![KernelOf(d)] = EmptyNs]
  /\ binder' = [binder EXCEPT ![KernelOf(d)] = EmptyBinder]
  /\ counter' = [counter EXCEPT ![KernelOf(d)] = 0]
  /\ run' = [run EXCEPT ![d] = NoRun]
  /\ hist' = [hist EXCEPT ![d] = Append(@, 0)]
  /\ UNCHANGED <<stamp, service, installed, fmpos, meta, bindings>>

\* the document is run top to bottom in a fresh kernel: its next cell
RunNext(d) ==
  /\ Len(hist[d]) < NumCells(d)
  /\ \A k \in DOMAIN hist[d] : hist[d][k] = k
  /\ \E ok \in (IF HasPip(d, Len(hist[d]) + 1) THEN BOOLEAN ELSE {TRUE}) :
       Execute(d, Len(hist[d]) + 1, ok)

\* the site generator reads the next line of the front matter of the page,
\* which is published by the last step of running its notebook
ParseLine ==
  /\ Len(hist["eb"]) = NumCells("eb")
  /\ fmpos < Len(FrontMatter)
  /\ LET e == FrontMatter[fmpos + 1]
     IN /\ fmpos' = fmpos + 1
        /\ meta' = [k \in DOMAIN meta \cup {e.key} |->
                      IF k = e.key THEN e.value ELSE meta[k]]
        /\ bindings' = [k \in DOMAIN bindings \cup {e.key} |->
                          IF k \in DOMAIN bindings
                          THEN IF k = e.key THEN Append(bindings[k], e.value)
                               ELSE bindings[k]
                          ELSE <<e.value>>]
  /\ UNCHANGED <<ns, binder, counter, stamp, run, hist, service, installed>>

\* interactive use: cells in any order, kernel restarts
Next ==
  \/ \E d \in Docs : \E c \in 1..NumCells(d) : RunCell(d, c)
  \/ \E d \in Docs : Restart(d)

Spec == Init /\ [][Next]_vars

\* publication: each document run in document order, the page built
NextBuild ==
  \/ \E d \in Docs : RunNext(d)
  \/ ParseLine

SpecBuild == Init /\ [][NextBuild]_vars

(***************************************************************************)
(* Properties.                                                             *)
(***************************************************************************)
\* the last event of document d is a cell run first in a fresh kernel
RanAlone(d) ==
  /\ Len(hist[d]) >= 1
  /\ hist[d][Len(hist[d])] # 0
  /\ Len(hist[d]) = 1 \/ hist[d][Len(hist[d]) - 1] = 0

\* the cells of d run so far are its first cells, in document order
InDocumentOrder(d) == \A k \in DOMAIN hist[d] : hist[d][k] = k

\* the names the statements stmts[k..] read before the cell has bound them
RECURSIVE FreeNames(_, _, _)
FreeNames(stmts, k, bound) ==
  IF k > Len(stmts) THEN {}
  ELSE (stmts[k].reads \ bound)
       \cup (IF stmts[k].op = "loop" THEN FreeNames(LoopBody, 1, bound) ELSE {})
       \cup FreeNames(stmts, k + 1,
                      bound \cup (IF stmts[k].target = "" THEN {} ELSE {stmts[k].target}))

SelfContained(d, c) == FreeNames(Cells(d)[c], 1, {}) = {}

ChartKinds == {"ndarray", "matrix", "list", "data", "trace", "layout", "figure"}

\* the reads, rebindings and in-place writes by the last cell of d of arrays
\* and chart descriptions that a different cell bound
CrossCell(d) == { e \in run[d].xref : e.kind \in ChartKinds }

\* C2 (as stated): no cell reads, rebinds or modifies an array, trace, data
\* list, layout or figure that was bound by a different cell.
C2_NoCrossCellUse == \A d \in Docs : CrossCell(d) = {}

\* C2 (amended): no cell modifies in place an array, trace, data list, layout
\* or figure bound by a different cell, and no cell of the error-bars page
\* reads one; but cells of both documents rebind such names bound by other
\* cells, and the notebook's Plot and py.iplot cells read the arrays and
\* figures bound by the cells before them.
C2_NoCrossCellMutation ==
  /\ \A d \in Docs : \A e \in CrossCell(d) : e.how # "mutate"
  /\ \A e \in CrossCell("eb") : e.how = "rebind"
  /\ \A e \in CrossCell("nb") :
       e.how = "read" => run["nb"].cell \in {4, 5, 6, 7}

\* the notebook's Plot shrinkage cell has read the arrays of the Calculations
\* cell and rebound the traces of the Plot MSE cell, and an error-bars cell
\* has rebound the data list of the cell before it
C2_Witness ==
  /\ run["nb"].cell = 6
  /\ \E e \in CrossCell("nb") : e.how = "read" /\ e.name = "lw_mse" /\ e.from = <<"nb", 3>>
  /\ \E e \in CrossCell("nb") : e.how = "rebind" /\ e.name = "fig" /\ e.from = <<"nb", 4>>
  /\ \E e \in CrossCell("eb") : e.how = "rebind" /\ e.name = "data"

\* the charts document d has submitted, in order
ChartsOf(svc, d) == SelectSeq(svc, LAMBDA e : e.doc = d)

TracesOf(v) ==
  IF v.kind = "figure" THEN v.data.traces
  ELSE IF v.kind = "data" THEN v.traces
  ELSE <<>>

\* a chart description is completely constructed: it is a data list or a
\* figure with a layout, with at least one trace, every trace with its x and
\* y, and every array computed from a result matrix computed from a matrix
\* whose every entry the Calculations loop has written
Complete(v) ==
  /\ v.kind \in {"data", "figure"}
  /\ v.kind = "figure" => v.data.kind = "data" /\ v.layout.kind = "layout"
  /\ Len(TracesOf(v)) >= 1
  /\ \A k \in DOMAIN TracesOf(v) :
       LET t == TracesOf(v)[k]
       IN /\ t.kind = "trace"
          /\ Has(t.args, "x") /\ Has(t.args, "y")
          /\ t.args.y.kind = "ndarray" => t.args.y.full
          /\ (Has(t.args, "error_y") /\ Has(t.args.error_y, "arrayminus")
              /\ t.args.error_y.arrayminus.kind = "ndarray")
               => t.args.error_y.arrayminus.full

ResultMatrices == {"lw_mse", "oa_mse", "lw_shrinkage", "oa_shrinkage"}

\* C3: under document-order execution every chart handed to py.iplot has
\* been completely constructed, every trace, data list and figure of the
\* notebook is constructed after the Calculations loop has written every
\* entry of the four result matrices, and the first chart the notebook
\* submits is the 'Squared error' figure and the second the 'Shrinkage' one.
C3_SubmitAfterConstruct ==
  /\ \A k \in DOMAIN service : Complete(service[k].arg)
  /\ \A n \in {"Ledoit_Wolf", "data", "fig"} :
       Bound(ns["nb"], n) =>
         \A m \in ResultMatrices : Bound(ns["nb"], m) /\ MatFull(ns["nb"][m])
  /\ LET nb == ChartsOf(service, "nb")
     IN /\ Len(nb) <= 2
        /\ Len(nb) >= 1 =>
             /\ nb[1].cell = 5 /\ nb[1].arg.kind = "figure"
             /\ nb[1].arg.layout.args.yaxis.title = "Squared error"
        /\ Len(nb) >= 2 =>
             /\ nb[2].cell = 7 /\ nb[2].arg.kind = "figure"
             /\ nb[2].arg.layout.args.yaxis.title = "Shrinkage"
        /\ Len(nb) = (IF Len(hist["nb"]) >= 7 THEN 2
                      ELSE IF Len(hist["nb"]) >= 5 THEN 1 ELSE 0)

\* the notebook has submitted both of its figures
C3_Witness ==
  /\ Len(ChartsOf(service, "nb")) = 2
  /\ ChartsOf(service, "nb")[2].arg.data.traces[1].args.y.full

\* document d run alone: the charts it submits when its events h[k..] are
\* executed by a kernel with namespace kns against a service holding svc
RECURSIVE AloneCharts(_, _, _, _, _, _)
AloneCharts(d, h, k, kns, kb, svc) ==
  IF k > Len(h) THEN svc
  ELSE IF h[k] = 0 THEN AloneCharts(d, h, k + 1, EmptyNs, EmptyBinder, svc)
  ELSE CHOOSE x \in
         { AloneCharts(d, h, k + 1, r.ns, r.binder, SubmitAll(svc, d, h[k], r.out, 1))
           : r \in {ExecCell(d, h[k], kns, kb, TRUE, TRUE)} } : TRUE

\* the file (name, n) of the service: its latest submission
LatestOf(svc, e) ==
  svc[CHOOSE k \in DOMAIN svc :
        /\ svc[k].name = e.name /\ svc[k].n = e.n
        /\ \A j \in DOMAIN svc :
             (svc[j].name = e.name /\ svc[j].n = e.n) => j <= k]

\* C4: no data flows between the two documents: in any interleaving of
\* their cells, a cell of one document leaves the namespace of the other
\* document's kernel and the charts submitted by the other document
\* unchanged, no file of one document is overwritten by the other, and the
\* charts each document has submitted are those it submits when run alone.
C4_NoFlowBetweenDocuments ==
  /\ [](\A d \in Docs :
          /\ ChartsOf(service, d) = AloneCharts(d, hist[d], 1, EmptyNs, EmptyBinder, <<>>)
          /\ \A k \in DOMAIN service : LatestOf(service, service[k]).doc = service[k].doc)
  /\ [][\A d \in Docs : \A e \in Docs \ {d} :
          hist'[d] # hist[d] =>
            /\ ns'[KernelOf(e)] = ns[KernelOf(e)]
            /\ binder'[KernelOf(e)] = binder[KernelOf(e)]
            /\ counter'[KernelOf(e)] = counter[KernelOf(e)]
            /\ stamp'[e] = stamp[e]
            /\ ChartsOf(service', e) = ChartsOf(service, e)]_vars

\* both documents have been run to their end, their cells interleaved: the
\* page has submitted a chart between the notebook's two
C4_Witness ==
  /\ Len(hist["nb"]) = NumCells("nb") /\ Len(hist["eb"]) = NumCells("eb")
  /\ \E i, j, k \in DOMAIN service :
       /\ i < j /\ j < k
       /\ service[i].doc = "nb" /\ service[j].doc = "eb" /\ service[k].doc = "nb"

\* the code cells of d that have statements
Executable(d) == { c \in 1..NumCells(d) : Cells(d)[c] # <<>> }

\* C5 (as stated): the execution counts recorded at the executed code cells
\* of each document are strictly increasing in document order.
C5_CountsIncreasing ==
  \A d \in Docs : \A a, b \in 1..NumCells(d) :
    (a < b /\ stamp[d][a] # 0 /\ stamp[d][b] # 0) => stamp[d][a] < stamp[d][b]

\* C5 (amended): the cells a session runs one at a time in document order
\* get strictly increasing execution counts, the k-th cell run the count k;
\* the counts recorded in the committed documents are strictly increasing
\* only up to the cell before the last executed one: the last executed cell
\* of each document (the notebook's publishing cell, In [2] after In [7]; the
\* page's last example, In [1] after In [6]) carries a lower count than the
\* cell before it.
C5_CountsOfOneSession ==
  \A d \in Docs :
    /\ \A a, b \in Executable(d) :
         (a < b /\ b <= Len(hist[d])) => stamp[d][a] < stamp[d][b]
    /\ \A c \in Executable(d) : c <= Len(hist[d]) => stamp[d][c] = c
    /\ \A c \in 1..NumCells(d) : c > Len(hist[d]) => stamp[d][c] = RecordedCount(d)[c]
    /\ LET last == CHOOSE c \in Executable(d) : \A b \in Executable(d) : b <= c
       IN /\ RecordedCount(d)[last] < RecordedCount(d)[last - 1]
          /\ \A a, b \in 1..(last - 1) : a < b => RecordedCount(d)[a] < RecordedCount(d)[b]

\* both documents have been run from their first to their last cell
C5_Witness ==
  /\ Len(hist["nb"]) = NumCells("nb") /\ stamp["nb"][8] = 8
  /\ Len(hist["eb"]) = NumCells("eb") /\ stamp["eb"][7] = 7

\* the step is the execution of the notebook's publishing cell
RunsPublishingCell == hist'["nb"] = Append(hist["nb"], 8)

\* the publishing cell leaves the arrays and chart descriptions of the
\* session and the submitted charts as they were
PublishingFrame ==
  /\ \A n \in Names :
       ns["nb"][n].kind \in ChartKinds => ns'["nb"][n] = ns["nb"][n]
  /\ service' = service

\* C6 (as stated): in the publishing cell the outcome of pip install is never
\* inspected: whether it succeeds or fails the cell runs pip once, proceeds
\* to import publisher and to publisher.publish(...), and leaves all
\* previously computed arrays and figures unchanged.
C6_ProceedsToPublish ==
  [][RunsPublishingCell =>
       /\ Len(run'["nb"].pip) = 1
       /\ {"nb.import_publisher", "nb.publish"} \subseteq run'["nb"].reached
       /\ PublishingFrame]_vars

\* C6 (amended): in the publishing cell the outcome of pip install is never
\* inspected: whether it succeeds or fails the cell runs pip once, with no
\* retry, and proceeds to import publisher; it proceeds to
\* publisher.publish(...) exactly when that import succeeds, that is when the
\* publisher package is present, and stops with an ImportError when the
\* failed installation leaves no publisher package; in every case all
\* previously computed arrays and figures are unchanged.
C6_PipOutcomeIgnored ==
  [][RunsPublishingCell =>
       /\ Len(run'["nb"].pip) = 1
       /\ "nb.import_publisher" \in run'["nb"].reached
       /\ "nb.publish" \in run'["nb"].reached <=> installed'
       /\ installed' <=> (installed \/ run'["nb"].pip[1])
       /\ run'["nb"].err = (IF installed' THEN "none" ELSE "ImportError")
       /\ run'["nb"].published = (IF installed' THEN 1 ELSE 0)
       /\ PublishingFrame]_vars

\* the installation has failed and the cell has gone on to publish, after
\* both figures were computed
C6_Witness ==
  /\ run["nb"].cell = 8 /\ run["nb"].pip = <<FALSE>>
  /\ "nb.publish" \in run["nb"].reached /\ run["nb"].published = 1
  /\ Bound(ns["nb"], "fig") /\ Bound(ns["nb"], "lw_mse")

\* the charts submitted by the example of the page with this filename
Example(f) == SelectSeq(service, LAMBDA e : e.doc = "eb" /\ e.name = f)

\* C7: the example under 'Asymmetric Error Bars with a Constant Offset'
\* submits a trace whose error_y has symmetric False, type 'constant' and
\* distinct value and valueminus.
C7_ConstantOffset ==
  \A k \in DOMAIN Example("error-bar-asymmetric-constant") :
    LET ts == TracesOf(Example("error-bar-asymmetric-constant")[k].arg)
    IN /\ Len(ts) = 1
       /\ Has(ts[1].args, "error_y")
       /\ LET e == ts[1].args.error_y
          IN /\ Has(e, "symmetric") /\ e.symmetric = FALSE
             /\ Has(e, "type") /\ e.type = "constant"
             /\ Has(e, "value") /\ Has(e, "valueminus")
             /\ e.value # e.valueminus

\* every per-point error sequence of a trace is as long as the coordinate
\* sequence it annotates, and x is as long as y
LengthsAgree(t) ==
  /\ (Has(t.args, "x") /\ Has(t.args, "y")) => SeqLen(t.args.x) = SeqLen(t.args.y)
  /\ Has(t.args, "error_y") =>
       \A key \in {"array", "arrayminus"} :
         Has(t.args.error_y, key) => SeqLen(t.args.error_y[key]) = SeqLen(t.args.y)
  /\ Has(t.args, "error_x") =>
       \A key \in {"array", "arrayminus"} :
         Has(t.args.error_x, key) => SeqLen(t.args.error_x[key]) = SeqLen(t.args.x)

\* the traces a value holds
TracesIn(v) == IF v.kind = "trace" THEN <<v>> ELSE TracesOf(v)

\* C8: in every trace constructed in either document x and y have the same
\* length and every error array has the length of the coordinates it
\* annotates; in the notebook's traces that length is 25.
C8_LengthsAgree ==
  /\ \A d \in Docs : \A n \in Names : \A k \in DOMAIN TracesIn(ns[d][n]) :
       LET t == TracesIn(ns[d][n])[k]
       IN /\ LengthsAgree(t)
          /\ d = "nb" =>
               /\ SeqLen(t.args.x) = 25 /\ SeqLen(t.args.y) = 25
               /\ SeqLen(t.args.error_y.arrayminus) = 25
  /\ \A j \in DOMAIN service : \A k \in DOMAIN TracesOf(service[j].arg) :
       LET t == TracesOf(service[j].arg)[k]
       IN /\ LengthsAgree(t)
          /\ service[j].doc = "nb" =>
               /\ SeqLen(t.args.x) = 25 /\ SeqLen(t.args.y) = 25
               /\ SeqLen(t.args.error_y.arrayminus) = 25

\* the notebook has submitted its four traces and the page its example with
\* array and arrayminus
C8_Witness ==
  /\ Len(ChartsOf(service, "nb")) = 2
  /\ Len(TracesOf(ChartsOf(service, "nb")[1].arg)) = 2
  /\ Len(TracesOf(ChartsOf(service, "nb")[2].arg)) = 2
  /\ Len(Example("error-bar-asymmetric-array")) = 1
  /\ Has(TracesOf(Example("error-bar-asymmetric-array")[1].arg)[1].args.error_y,
         "arrayminus")

\* C9: every key of the front matter of the error-bars page is bound to
\* exactly one value: no key is defined more than once.
C9_UniqueKeys == \A k \in DOMAIN bindings : Len(bindings[k]) = 1

\* C10: the example under 'Basic Symmetric Error Bars' submits a trace whose
\* error_y gives a per-point data array as long as y, gives no arrayminus and
\* no valueminus, does not set symmetric to False, and is visible.
C10_BasicSymmetric ==
  \A k \in DOMAIN Example("basic-error-bar") :
    LET ts == TracesOf(Example("basic-error-bar")[k].arg)
    IN /\ Len(ts) = 1
       /\ Has(ts[1].args, "error_y")
       /\ LET e == ts[1].args.error_y
          IN /\ Has(e, "type") /\ e.type = "data"
             /\ Has(e, "array") /\ SeqLen(e.array) = SeqLen(ts[1].args.y)
             /\ ~Has(e, "arrayminus") /\ ~Has(e, "valueminus")
             /\ ~(Has(e, "symmetric") /\ e.symmetric = FALSE)
             /\ Has(e, "visible") /\ e.visible = TRUE

\* the example has been submitted
C10_Witness ==
  /\ Len(Example("basic-error-bar")) = 1
  /\ Example("basic-error-bar")[1].cell = 1

\* C11: the example under 'Horizontal Error Bars' submits a trace with error
\* bars on the x axis only: error_x is given and error_y is not.
C11_HorizontalOnly ==
  \A k \in DOMAIN Example("error-bar-horizontal") :
    LET ts == TracesOf(Example("error-bar-horizontal")[k].arg)
    IN /\ Example("error-bar-horizontal")[k].cell = 5
       /\ Len(ts) = 1
       /\ Has(ts[1].args, "error_x")
       /\ ~Has(ts[1].args, "error_y")

\* the example has been submitted
C11_Witness ==
  /\ Len(Example("error-bar-horizontal")) = 1
  /\ run["eb"].cell = 5 /\ run["eb"].err = "none"

\* the error-bar sequence of a notebook trace is the per-row standard
\* deviation of the result matrix whose per-row mean is its y
SameMatrix(t) ==
  /\ Has(t.args, "y") /\ Has(t.args, "error_y")
  /\ Has(t.args.error_y, "arrayminus")
  /\ t.args.y.op = "mean" /\ t.args.y.of \in ResultMatrices
  /\ t.args.error_y.arrayminus.op = "std"
  /\ t.args.error_y.arrayminus.of = t.args.y.of

\* C12: in each of the four notebook traces the error-bar sequence is the
\* per-row standard deviation of the same result matrix whose per-row mean is
\* plotted as y.
C12_ErrorOfSameMatrix ==
  /\ \A n \in Names : \A k \in DOMAIN TracesIn(ns["nb"][n]) :
       SameMatrix(TracesIn(ns["nb"][n])[k])
  /\ \A j \in DOMAIN service :
       service[j].doc = "nb" =>
         \A k \in DOMAIN TracesOf(service[j].arg) :
           SameMatrix(TracesOf(service[j].arg)[k])

\* the events of d since its kernel was last started
RECURSIVE SinceRestart(_)
SinceRestart(h) ==
  IF h = <<>> THEN {}
  ELSE IF h[Len(h)] = 0 THEN {}
  ELSE {h[Len(h)]} \cup SinceRestart(SubSeq(h, 1, Len(h) - 1))

\* the Imports cell has run in the notebook's current session
ImportsRan == 2 \in SinceRestart(hist["nb"])

\* C13: in every state of a notebook session after the Imports cell has run,
\* the name OAS denotes the estimator class imported from the statistics
\* library, so a run of the Calculations cell completes its loop.
C13_OASIsEstimator ==
  ImportsRan =>
    /\ ns["nb"]["OAS"].kind = "class"
    /\ ns["nb"]["OAS"].name = "sklearn.covariance.OAS"
    /\ run["nb"].cell = 3 =>
         /\ run["nb"].err = "none"
         /\ \A m \in ResultMatrices : MatFull(ns["nb"][m])

\* an error-bar specification that gives a minus-side magnitude also sets
\* symmetric to False and gives the matching plus-side magnitude
MinusSideUsed(e) ==
  /\ Has(e, "arrayminus") =>
       /\ Has(e, "symmetric") /\ e.symmetric = FALSE
       /\ Has(e, "array")
  /\ Has(e, "valueminus") =>
       /\ Has(e, "symmetric") /\ e.symmetric = FALSE
       /\ Has(e, "value")

ErrorBarsUsed(t) ==
  \A a \in {"error_x", "error_y"} : Has(t.args, a) => MinusSideUsed(t.args[a])

\* C14: every error-bar specification of the repository that gives a
\* minus-side magnitude (arrayminus or valueminus) also sets symmetric to
\* False and gives the matching plus-side magnitude (array or value).
C14_MinusSideUsed ==
  /\ \A d \in Docs : \A n \in Names : \A k \in DOMAIN TracesIn(ns[d][n]) :
       ErrorBarsUsed(TracesIn(ns[d][n])[k])
  /\ \A j \in DOMAIN service : \A k \in DOMAIN TracesOf(service[j].arg) :
       ErrorBarsUsed(TracesOf(service[j].arg)[k])

====
